---- MODULE Spec2Model ----
(***************************************************************************)
(* A model of gtdbtk/ani_rep.py: ANIRep.run and its helpers, the summary   *)
(* report writer ANISummaryFile and the closest-representative report      *)
(* writer ANIClosestFile.                                                  *)
(*                                                                         *)
(* Genome ids are integers.  A query id is one of QryIds; a reference id   *)
(* is accession * 10 + version, so that the canonical id (the accession)   *)
(* differs from the id used in the similarity records.  ANI and alignment  *)
(* fraction are integers on a small scale; only their order matters to the *)
(* code.  A Python dict is a function, and where the code iterates over a  *)
(* dict whose insertion order matters (the hits of one query) it is a      *)
(* sequence of records with distinct keys, in insertion order.             *)
(***************************************************************************)
EXTENDS Integers, Sequences, FiniteSets, TLC

VARIABLES
    pc,              \* position of the run: the call about to be made
    genomes,         \* run(genomes): query id -> fasta path
    no_mash,         \* run(no_mash)
    min_af,          \* run(min_af)
    manifest,        \* content of FASTANI_GENOME_LIST: a sequence of token lists
    ref_genomes,     \* run: ref_genomes
    d_compare,       \* run: d_compare
    d_paths,         \* run: d_paths
    fastani_results, \* run: fastani_results (ANISummaryFile.results, ANIClosestFile.results)
    taxonomy,        \* run: taxonomy
    mash_results,    \* run: mash_results
    gtdb_radii,      \* ANIClosestFile.gtdb_radii
    summary_file,    \* <prefix>.ani_summary.tsv
    closest_file,    \* <prefix>.ani_closest.tsv
    error            \* the exception that left the call, "none" when there is none

vars == <<pc, genomes, no_mash, min_af, manifest, ref_genomes, d_compare, d_paths,
          mash_results, fastani_results, taxonomy, gtdb_radii, summary_file,
          closest_file, error>>

----------------------------------------------------------------------------
(* Bounds of the model *)

\* the largest number of hits in a similarity table
MaxHits == 2
\* the largest number of lines of a manifest given to _get_ref_genomes alone
MaxLines == 3
\* the largest number of lines of the manifest of a whole run
MaxRunLines == 1

QryIds == {1, 2}
RefIds == {11, 12, 21}
AniValues == {1, 2}
AfValues == {1, 2, 3}
Dirs == {"a", "b"}

\* config.AF_THRESHOLD, on the scale of AfValues
AF_THRESHOLD == 2

\* the literal 'no result' of a placeholder field
NoResult == 0

EmptyMap == [x \in {} |-> 0]

----------------------------------------------------------------------------
(* Helpers of the Python runtime *)

\* comparison of two key tuples of the same length
LexLess(a, b) ==
    \E i \in 1..Len(a) : a[i] < b[i] /\ \A j \in 1..(i - 1) : a[j] = b[j]

\* Insert, were the sort not stable: x goes before the elements of equal key
RECURSIVE Insert_Unstable(_, _)
Insert_Unstable(x, s) ==
    IF s = <<>> THEN <<x>>
    ELSE IF ~LexLess(Head(s)[1], x[1]) THEN <<x>> \o s
    ELSE <<Head(s)>> \o Insert_Unstable(x, Tail(s))

\* sorted(): x = <<key, item>> goes after every element whose key is not greater
RECURSIVE Insert(_, _)
Insert(x, s) ==
    IF s = <<>> THEN <<x>>
    ELSE IF LexLess(x[1], Head(s)[1]) THEN <<x>> \o s
    ELSE <<Head(s)>> \o Insert(x, Tail(s))

\* sorted(items, key=...) over a sequence of <<key, item>>: a stable sort
RECURSIVE SortedKeyed(_)
SortedKeyed(s) ==
    IF s = <<>> THEN <<>>
    ELSE Insert(s[Len(s)], SortedKeyed(SubSeq(s, 1, Len(s) - 1)))

\* sorted(d) of a dict: its keys in ascending order
RECURSIVE SortedIds(_)
SortedIds(S) ==
    IF S = {} THEN <<>>
    ELSE LET m == CHOOSE x \in S : \A y \in S : x <= y
         IN <<m>> \o SortedIds(S \ {m})

\* canonical_gid: the id without its version suffix
canonical_gid(gid) == gid \div 10

\* ';'.join(taxonomy[canonical_rid]): the lineage as one field
Join(lineage) == lineage[1] * 100 + lineage[2]

----------------------------------------------------------------------------
(* ANISummaryFile._write *)

SummaryHeader ==
    <<"user_genome", "reference_genome", "fastani_ani", "fastani_af", "reference_taxonomy">>

\* SummaryKey, were ANI the first key as it is in the closest report
SummaryKey_AniFirst(hit) == <<0 - hit.ani, 0 - hit.af, hit.ref>>

\* key=lambda x: (-x[1]['af'], -x[1]['ani'], x[0])
SummaryKey(hit) == <<0 - hit.af, 0 - hit.ani, hit.ref>>

\* sorted(ref_hits.items(), key=...)
SummarySorted(ref_hits) ==
    LET keyed == [i \in 1..Len(ref_hits) |-> <<SummaryKey(ref_hits[i]), ref_hits[i]>>]
        srt == SortedKeyed(keyed)
    IN [i \in 1..Len(srt) |-> srt[i][2]]

\* SummaryHitLoop, were a hit without taxonomy skipped instead of raising
RECURSIVE SummaryHitLoop_Skip(_, _, _, _)
SummaryHitLoop_Skip(qry_gid, hits, tax, file) ==
    IF hits = <<>> THEN file
    ELSE LET ref_hit == Head(hits)
             canonical_rid == canonical_gid(ref_hit.ref)
         IN IF canonical_rid \notin DOMAIN tax
            THEN SummaryHitLoop_Skip(qry_gid, Tail(hits), tax, file)
            ELSE SummaryHitLoop_Skip(qry_gid, Tail(hits), tax,
                    [file EXCEPT !.rows = Append(@,
                        <<qry_gid, ref_hit.ref, ref_hit.ani, ref_hit.af,
                          Join(tax[canonical_rid])>>)])

\* SummaryHitLoop, were the lineage read with a default (taxonomy.get)
RECURSIVE SummaryHitLoop_Lenient(_, _, _, _)
SummaryHitLoop_Lenient(qry_gid, hits, tax, file) ==
    IF hits = <<>> THEN file
    ELSE LET ref_hit == Head(hits)
             canonical_rid == canonical_gid(ref_hit.ref)
         IN SummaryHitLoop_Lenient(qry_gid, Tail(hits), tax,
                [file EXCEPT !.rows = Append(@,
                    <<qry_gid, ref_hit.ref, ref_hit.ani, ref_hit.af,
                      IF canonical_rid \in DOMAIN tax
                      THEN Join(tax[canonical_rid]) ELSE NoResult>>)])

\* the inner loop of _write: the rows of one query, until a lookup fails
RECURSIVE SummaryHitLoop(_, _, _, _)
SummaryHitLoop(qry_gid, hits, tax, file) ==
    IF hits = <<>> THEN file
    ELSE LET ref_hit == Head(hits)
             canonical_rid == canonical_gid(ref_hit.ref)
         IN IF canonical_rid \notin DOMAIN tax
            THEN [file EXCEPT !.err = "KeyError"]
            ELSE SummaryHitLoop(qry_gid, Tail(hits), tax,
                    [file EXCEPT !.rows = Append(@,
                        <<qry_gid, ref_hit.ref, ref_hit.ani, ref_hit.af,
                          Join(tax[canonical_rid])>>)])

\* the outer loop of _write, over sorted(self.results.items())
RECURSIVE SummaryQryLoop(_, _, _, _)
SummaryQryLoop(qry_gids, results, tax, file) ==
    IF qry_gids = <<>> \/ file.err # "none" THEN file
    ELSE SummaryQryLoop(Tail(qry_gids), results, tax,
            SummaryHitLoop(Head(qry_gids), SummarySorted(results[Head(qry_gids)]), tax, file))

\* _write: the file as it is left, and the exception if any
SummaryWrite(results, tax) ==
    SummaryQryLoop(SortedIds(DOMAIN results), results, tax,
                   [rows |-> <<SummaryHeader>>, err |-> "none"])

----------------------------------------------------------------------------
(* ANIClosestFile._write *)

ClosestHeader ==
    <<"user_genome", "reference_genome", "fastani_ani", "fastani_af",
      "reference_taxonomy", "satisfies_gtdb_circumscription_criteria">>

\* ThreshResults, were the alignment fraction not filtered on
ThreshResults_NoFilter(ref_hits, minaf) == ref_hits

\* [... for (ref_gid, hit) in self.results[gid].items() if hit['af'] >= self.min_af]
ThreshResults(ref_hits, minaf) == SelectSeq(ref_hits, LAMBDA hit : hit.af >= minaf)

\* key=lambda x: (-x[1]['ani'], -x[1]['af'])
ClosestKey(hit) == <<0 - hit.ani, 0 - hit.af>>

\* sorted(thresh_results, key=...)
ClosestSorted(thresh_results) ==
    LET keyed == [i \in 1..Len(thresh_results) |->
                    <<ClosestKey(thresh_results[i]), thresh_results[i]>>]
        srt == SortedKeyed(keyed)
    IN [i \in 1..Len(srt) |-> srt[i][2]]

\* MeetsRadius, were the fixed alignment-fraction threshold left out
MeetsRadius_AniOnly(closest_ani, closest_af, gtdb_ani_radius) ==
    closest_ani >= gtdb_ani_radius

\* closest_ani >= gtdb_ani_radius and closest_af >= AF_THRESHOLD
MeetsRadius(closest_ani, closest_af, gtdb_ani_radius) ==
    closest_ani >= gtdb_ani_radius /\ closest_af >= AF_THRESHOLD

\* ClosestRow, were both 'no result' rows as wide as the header
ClosestRow_SameWidth(gid, results, minaf, tax, radii, file) ==
    IF gid \in DOMAIN results
    THEN LET closest == ClosestSorted(ThreshResults(results[gid], minaf))
         IN IF Len(closest) > 0
            THEN LET ref_gid == closest[1].ref
                     canonical_rid == canonical_gid(ref_gid)
                     closest_ani == closest[1].ani
                     closest_af == closest[1].af
                 IN IF canonical_rid \notin DOMAIN tax
                    THEN [file EXCEPT !.err = "KeyError"]
                    ELSE IF canonical_rid \notin DOMAIN radii
                    THEN [file EXCEPT !.err = "RadiusError"]
                    ELSE [file EXCEPT !.rows = Append(@,
                            <<gid, ref_gid, closest_ani, closest_af,
                              Join(tax[canonical_rid]),
                              MeetsRadius(closest_ani, closest_af, radii[canonical_rid])>>)]
            ELSE [file EXCEPT !.rows = Append(@,
                    <<gid, NoResult, NoResult, NoResult, NoResult, NoResult>>)]
    ELSE [file EXCEPT !.rows = Append(@,
            <<gid, NoResult, NoResult, NoResult, NoResult, NoResult>>)]

\* the body of the loop of _write for one gid
ClosestRow(gid, results, minaf, tax, radii, file) ==
    IF gid \in DOMAIN results
    THEN LET closest == ClosestSorted(ThreshResults(results[gid], minaf))
         IN IF Len(closest) > 0
            THEN LET ref_gid == closest[1].ref
                     canonical_rid == canonical_gid(ref_gid)
                     closest_ani == closest[1].ani
                     closest_af == closest[1].af
                 IN IF canonical_rid \notin DOMAIN tax
                    THEN [file EXCEPT !.err = "KeyError"]
                    ELSE IF canonical_rid \notin DOMAIN radii
                    THEN [file EXCEPT !.err = "RadiusError"]
                    ELSE [file EXCEPT !.rows = Append(@,
                            <<gid, ref_gid, closest_ani, closest_af,
                              Join(tax[canonical_rid]),
                              MeetsRadius(closest_ani, closest_af, radii[canonical_rid])>>)]
            ELSE [file EXCEPT !.rows = Append(@,
                    <<gid, NoResult, NoResult, NoResult, NoResult, NoResult>>)]
    ELSE [file EXCEPT !.rows = Append(@, <<gid, NoResult, NoResult, NoResult, NoResult>>)]

\* the loop of _write, over sorted(self.genomes)
RECURSIVE ClosestLoop(_, _, _, _, _, _)
ClosestLoop(gids, results, minaf, tax, radii, file) ==
    IF gids = <<>> \/ file.err # "none" THEN file
    ELSE ClosestLoop(Tail(gids), results, minaf, tax, radii,
            ClosestRow(Head(gids), results, minaf, tax, radii, file))

\* _write: the file as it is left, and the exception if any
ClosestWrite(results, gen, minaf, tax, radii) ==
    ClosestLoop(SortedIds(DOMAIN gen), results, minaf, tax, radii,
                [rows |-> <<ClosestHeader>>, err |-> "none"])

----------------------------------------------------------------------------
(* ANIRep._get_ref_genomes *)

\* a filename: the text before FASTANI_GENOMES_EXT, and whether it ends with it
FullNames == [stem : RefIds, ext : BOOLEAN]

\* d[k] = v on a dict
Put(d, k, v) == [x \in DOMAIN d \cup {k} |-> IF x = k THEN v ELSE d[x]]

\* os.path.join(FASTANI_DIR, path, full_name)
PathJoin(path, full_name) == <<"FASTANI_DIR", path, full_name>>

\* GetRefGenomesLoop, were the id always derived from the line's own filename
RECURSIVE GetRefGenomesLoop_OwnStem(_, _, _)
GetRefGenomesLoop_OwnStem(lines, refs, accession) ==
    IF lines = <<>> THEN [ref_genomes |-> refs, err |-> "none"]
    ELSE LET line == Head(lines)
         IN IF Len(line) # 2
            THEN [ref_genomes |-> refs, err |-> "ValueError"]
            ELSE LET full_name == line[1]
                     path == line[2]
                     acc == <<full_name.stem>>
                 IN GetRefGenomesLoop_OwnStem(Tail(lines),
                        Put(refs, acc[1], PathJoin(path, full_name)), acc)

\* the loop over the lines; accession is <<>> while the name is unbound
RECURSIVE GetRefGenomesLoop(_, _, _)
GetRefGenomesLoop(lines, refs, accession) ==
    IF lines = <<>> THEN [ref_genomes |-> refs, err |-> "none"]
    ELSE LET line == Head(lines)
         IN IF Len(line) # 2
            THEN [ref_genomes |-> refs, err |-> "ValueError"]
            ELSE LET full_name == line[1]
                     path == line[2]
                     acc == IF full_name.ext THEN <<full_name.stem>> ELSE accession
                 IN IF acc = <<>>
                    THEN [ref_genomes |-> refs, err |-> "UnboundLocalError"]
                    ELSE GetRefGenomesLoop(Tail(lines),
                            Put(refs, acc[1], PathJoin(path, full_name)), acc)

\* _get_ref_genomes: the dict built when err is "none"; nothing is returned otherwise
GetRefGenomesOf(lines) == GetRefGenomesLoop(lines, EmptyMap, <<>>)

----------------------------------------------------------------------------
(* The inputs of a run *)

NoFile == [exists |-> FALSE, rows |-> <<>>]
NoError == <<"none", "none">>

\* a line of the manifest after line.strip().split(): two tokens when well formed
Lines ==
    {<<>>}
    \cup {<<n>> : n \in FullNames}
    \cup {<<n, d>> : n \in FullNames, d \in Dirs}
    \cup {<<n, "a", "b">> : n \in FullNames}

Manifests(n) == UNION {[1..k -> Lines] : k \in 0..n}

\* the manifests of a whole run: every path token is the directory "a"
RunManifests ==
    {m \in Manifests(MaxRunLines) :
        \A i \in 1..Len(m) : Len(m[i]) >= 2 => m[i][2] = "a"}

QryPath(q) == <<"GENOME_DIR", "a", [stem |-> q, ext |-> TRUE]>>
GenomeDicts == {[q \in K |-> QryPath(q)] : K \in SUBSET QryIds}

CanonIds == {canonical_gid(r) : r \in RefIds}
Lineage(c) == <<c, c + 5>>
TaxonomyTables == {[c \in K |-> Lineage(c)] : K \in SUBSET CanonIds}
\* the radii file: an ANI radius for some of the canonical ids
Radius(c) == IF c = 1 THEN 2 ELSE 1
RadiiTables == {[c \in K |-> Radius(c)] : K \in SUBSET CanonIds}

Hits(refs) == [ref : refs, ani : AniValues, af : AfValues]

\* the hits of one query: an insertion-ordered dict keyed by reference id
HitSeqs(refs, n) ==
    UNION {{s \in [1..k -> Hits(refs)] :
                \A i, j \in 1..k : i # j => s[i].ref # s[j].ref} : k \in 0..n}

RECURSIVE SumLen(_, _)
SumLen(t, S) ==
    IF S = {} THEN 0
    ELSE LET q == CHOOSE x \in S : TRUE IN Len(t[q]) + SumLen(t, S \ {q})

\* FastANI.run(d_compare, d_paths): records only for pairs of d_compare
FastANIOutputs(d) ==
    UNION {{t \in [K -> HitSeqs(UNION {d[q] : q \in K}, MaxHits)] :
                /\ \A q \in K : \A i \in 1..Len(t[q]) : t[q][i].ref \in d[q]
                /\ SumLen(t, K) <= MaxHits} : K \in SUBSET DOMAIN d}

\* every similarity table of the model
Tables == FastANIOutputs([q \in QryIds |-> RefIds])

\* Mash.run(genomes, ref_genomes, ...): per query, the references within max_d
MashOutputs(gen, refs) ==
    UNION {[K -> {[r \in R |-> 0] : R \in SUBSET DOMAIN refs}] : K \in SUBSET DOMAIN gen}

----------------------------------------------------------------------------
(* ANIRep.run *)

\* {**genomes, **ref_genomes}
Merge(a, b) == [x \in DOMAIN a \cup DOMAIN b |-> IF x \in DOMAIN b THEN b[x] ELSE a[x]]

\* d[k] of a defaultdict(set)
DefaultGet(d, k) == IF k \in DOMAIN d THEN d[k] ELSE {}

\* CompareFromMash, were a query without hits left out of d_compare
CompareFromMash_DropEmpty(d, results) ==
    [q \in DOMAIN d \cup {x \in DOMAIN results : DOMAIN results[x] # {}} |->
        IF q \in DOMAIN results THEN DefaultGet(d, q) \cup DOMAIN results[q] ELSE d[q]]

\* for qry_gid, ref_hits in mash_results.items(): d_compare[qry_gid] = ...union(...)
CompareFromMash(d, results) ==
    [q \in DOMAIN d \cup DOMAIN results |->
        IF q \in DOMAIN results THEN DefaultGet(d, q) \cup DOMAIN results[q] ELSE d[q]]

\* for qry_gid in genomes: d_compare[qry_gid] = set(ref_genomes.keys())
CompareAllRefs(d, gen, refs) ==
    [q \in DOMAIN d \cup DOMAIN gen |-> IF q \in DOMAIN gen THEN DOMAIN refs ELSE d[q]]

Abort(site, err) ==
    /\ pc' = "aborted"
    /\ error' = <<site, err>>

CheckDependencies ==
    /\ pc = "check_dependencies"
    /\ \/ pc' = "get_ref_genomes" /\ error' = error
       \/ Abort("check_dependencies", "SystemExit")
    /\ UNCHANGED <<genomes, no_mash, min_af, manifest, ref_genomes, d_compare, d_paths,
                   mash_results, fastani_results, taxonomy, gtdb_radii, summary_file,
                   closest_file>>

GetRefGenomes ==
    /\ pc = "get_ref_genomes"
    /\ LET out == GetRefGenomesOf(manifest)
       IN \/ /\ out.err = "none"
             /\ ref_genomes' = out.ref_genomes
             /\ d_compare' = EmptyMap
             /\ d_paths' = Merge(genomes, out.ref_genomes)
             /\ pc' = IF no_mash THEN "compare_all" ELSE "mash"
             /\ error' = error
          \/ /\ out.err # "none"
             /\ Abort("_get_ref_genomes", out.err)
             /\ UNCHANGED <<ref_genomes, d_compare, d_paths>>
    /\ UNCHANGED <<genomes, no_mash, min_af, manifest, mash_results, fastani_results,
                   taxonomy, gtdb_radii, summary_file, closest_file>>

MashPrefilter ==
    /\ pc = "mash"
    /\ \/ \E res \in MashOutputs(genomes, ref_genomes) :
             /\ mash_results' = res
             /\ d_compare' = CompareFromMash(d_compare, res)
             /\ pc' = "fastani"
             /\ error' = error
       \/ /\ Abort("Mash", "MashError")
          /\ UNCHANGED <<mash_results, d_compare>>
    /\ UNCHANGED <<genomes, no_mash, min_af, manifest, ref_genomes, d_paths,
                   fastani_results, taxonomy, gtdb_radii, summary_file, closest_file>>

CompareAll ==
    /\ pc = "compare_all"
    /\ d_compare' = CompareAllRefs(d_compare, genomes, ref_genomes)
    /\ pc' = "fastani"
    /\ UNCHANGED <<genomes, no_mash, min_af, manifest, ref_genomes, d_paths, mash_results,
                   fastani_results, taxonomy, gtdb_radii, summary_file, closest_file,
                   error>>

\* FastANIRun, were a failure of FastANI caught and the run continued
FastANIRun_Swallow ==
    /\ pc = "fastani"
    /\ \/ \E res \in FastANIOutputs(d_compare) :
             /\ fastani_results' = res
             /\ pc' = "taxonomy"
             /\ error' = error
       \/ /\ pc' = "taxonomy"
          /\ error' = <<"FastANI", "FastANIError">>
          /\ UNCHANGED fastani_results
    /\ UNCHANGED <<genomes, no_mash, min_af, manifest, ref_genomes, d_compare, d_paths,
                   mash_results, taxonomy, gtdb_radii, summary_file, closest_file>>

FastANIRun ==
    /\ pc = "fastani"
    /\ \/ \E res \in FastANIOutputs(d_compare) :
             /\ fastani_results' = res
             /\ pc' = "taxonomy"
             /\ error' = error
       \/ /\ Abort("FastANI", "FastANIError")
          /\ UNCHANGED fastani_results
    /\ UNCHANGED <<genomes, no_mash, min_af, manifest, ref_genomes, d_compare, d_paths,
                   mash_results, taxonomy, gtdb_radii, summary_file, closest_file>>

TaxonomyRead ==
    /\ pc = "taxonomy"
    /\ \/ \E tax \in TaxonomyTables :
             /\ taxonomy' = tax
             /\ pc' = "summary"
             /\ error' = error
       \/ /\ Abort("Taxonomy", "IOError")
          /\ UNCHANGED taxonomy
    /\ UNCHANGED <<genomes, no_mash, min_af, manifest, ref_genomes, d_compare, d_paths,
                   mash_results, fastani_results, gtdb_radii, summary_file, closest_file>>

ANISummaryFile ==
    /\ pc = "summary"
    /\ LET out == SummaryWrite(fastani_results, taxonomy)
       IN /\ summary_file' = [exists |-> TRUE, rows |-> out.rows]
          /\ \/ out.err = "none" /\ pc' = "closest" /\ error' = error
             \/ out.err # "none" /\ Abort("ANISummaryFile", out.err)
    /\ UNCHANGED <<genomes, no_mash, min_af, manifest, ref_genomes, d_compare, d_paths,
                   mash_results, fastani_results, taxonomy, gtdb_radii, closest_file>>

ANIClosestFile ==
    /\ pc = "closest"
    /\ \E radii \in RadiiTables :
          LET out == ClosestWrite(fastani_results, genomes, min_af, taxonomy, radii)
          IN /\ gtdb_radii' = radii
             /\ closest_file' = [exists |-> TRUE, rows |-> out.rows]
             /\ \/ out.err = "none" /\ pc' = "done" /\ error' = error
                \/ out.err # "none" /\ Abort("ANIClosestFile", out.err)
    /\ UNCHANGED <<genomes, no_mash, min_af, manifest, ref_genomes, d_compare, d_paths,
                   mash_results, fastani_results, taxonomy, summary_file>>

----------------------------------------------------------------------------
(* Specifications *)

Unset ==
    /\ ref_genomes = EmptyMap
    /\ d_compare = EmptyMap
    /\ d_paths = EmptyMap
    /\ mash_results = EmptyMap
    /\ gtdb_radii = EmptyMap
    /\ summary_file = NoFile
    /\ closest_file = NoFile
    /\ error = NoError

\* a whole run of ANIRep.run
Init ==
    /\ pc = "check_dependencies"
    /\ genomes \in GenomeDicts
    /\ no_mash \in BOOLEAN
    /\ min_af \in AfValues
    /\ manifest \in RunManifests
    /\ fastani_results = EmptyMap
    /\ taxonomy = EmptyMap
    /\ Unset

Next ==
    \/ CheckDependencies
    \/ GetRefGenomes
    \/ MashPrefilter
    \/ CompareAll
    \/ FastANIRun
    \/ TaxonomyRead
    \/ ANISummaryFile
    \/ ANIClosestFile

Spec == Init /\ [][Next]_vars

\* the two reports, from any similarity table and taxonomy (run, lines 117-124)
InitReports ==
    /\ pc = "summary"
    /\ genomes \in GenomeDicts
    /\ no_mash = TRUE
    /\ min_af \in AfValues
    /\ manifest = <<>>
    /\ fastani_results \in Tables
    /\ taxonomy \in TaxonomyTables
    /\ Unset

NextReports == ANISummaryFile \/ ANIClosestFile

SpecReports == InitReports /\ [][NextReports]_vars

\* ANIClosestFile alone, from any similarity table, taxonomy and radii
InitClosest ==
    /\ pc = "closest"
    /\ genomes \in GenomeDicts
    /\ no_mash = TRUE
    /\ min_af \in AfValues
    /\ manifest = <<>>
    /\ fastani_results \in Tables
    /\ taxonomy \in TaxonomyTables
    /\ Unset

NextClosest == ANIClosestFile

SpecClosest == InitClosest /\ [][NextClosest]_vars

\* _get_ref_genomes alone, from any manifest
InitManifest ==
    /\ pc = "get_ref_genomes"
    /\ genomes = EmptyMap
    /\ no_mash = TRUE
    /\ min_af = 1
    /\ manifest \in Manifests(MaxLines)
    /\ fastani_results = EmptyMap
    /\ taxonomy = EmptyMap
    /\ Unset

NextManifest == GetRefGenomes

SpecManifest == InitManifest /\ [][NextManifest]_vars

----------------------------------------------------------------------------
(* What the claims speak of *)

\* the rows of a report after its header
DataRows(file) == Tail(file.rows)

IsFullRow(row) == Len(row) = 6 /\ row[2] # NoResult

\* a row of the query id followed by n 'no result' fields
IsNoResultRow(row, n) == Len(row) = n + 1 /\ \A k \in 2..(n + 1) : row[k] = NoResult

Qualifies(hit) == hit.af >= min_af

HasQualifying(gid) ==
    /\ gid \in DOMAIN fastani_results
    /\ \E k \in 1..Len(fastani_results[gid]) : Qualifies(fastani_results[gid][k])

\* hit a is ahead of hit b in the closest report's order
Better(a, b) == a.ani > b.ani \/ (a.ani = b.ani /\ a.af > b.af)

\* C1: when ANIClosestFile._write returns, the report holds one row per query id of
\* genomes, in ascending order of id: 4 placeholders when the id is no key of the
\* table, 5 when it is a key without a hit of af >= min_af, a full row otherwise.
C1_RowShapes ==
    pc = "done" =>
        LET rows == DataRows(closest_file)
            gids == SortedIds(DOMAIN genomes)
        IN /\ Len(rows) = Len(gids)
           /\ \A i \in 1..Len(rows) :
                /\ rows[i][1] = gids[i]
                /\ IF gids[i] \notin DOMAIN fastani_results
                   THEN IsNoResultRow(rows[i], 4)
                   ELSE IF ~HasQualifying(gids[i])
                   THEN IsNoResultRow(rows[i], 5)
                   ELSE IsFullRow(rows[i]) /\ rows[i][6] \in BOOLEAN

C1_Witness ==
    /\ pc = "done"
    /\ \E i, j \in 1..Len(DataRows(closest_file)) :
          /\ IsNoResultRow(DataRows(closest_file)[i], 4)
          /\ IsNoResultRow(DataRows(closest_file)[j], 5)
          /\ fastani_results[DataRows(closest_file)[j][1]] # <<>>

\* C2: the reference of a full row of the closest report is a hit of that query with
\* af >= min_af, and no hit of the query with af >= min_af has a greater ANI, or the
\* same ANI and a greater AF; a query with such a hit gets a full row.
C2_ClosestIsBestQualifying ==
    /\ closest_file.exists =>
          \A i \in 1..Len(DataRows(closest_file)) :
             LET row == DataRows(closest_file)[i]
             IN IsFullRow(row) =>
                   /\ row[1] \in DOMAIN fastani_results
                   /\ \E k \in 1..Len(fastani_results[row[1]]) :
                         LET hit == fastani_results[row[1]][k]
                         IN /\ hit.ref = row[2] /\ hit.ani = row[3] /\ hit.af = row[4]
                            /\ Qualifies(hit)
                            /\ \A m \in 1..Len(fastani_results[row[1]]) :
                                  Qualifies(fastani_results[row[1]][m])
                                     => ~Better(fastani_results[row[1]][m], hit)
    /\ pc = "done" =>
          \A gid \in DOMAIN genomes :
             HasQualifying(gid) =>
                \E i \in 1..Len(DataRows(closest_file)) :
                   DataRows(closest_file)[i][1] = gid /\ IsFullRow(DataRows(closest_file)[i])

C2_Witness ==
    /\ pc = "done"
    /\ \E i \in 1..Len(DataRows(closest_file)) :
          LET row == DataRows(closest_file)[i]
          IN /\ IsFullRow(row)
             /\ \E m \in 1..Len(fastani_results[row[1]]) :
                   /\ fastani_results[row[1]][m].ani > row[3]
                   /\ ~Qualifies(fastani_results[row[1]][m])

\* C3: the flag of a full row of the closest report is True exactly when the winner's
\* ANI is at least the radius of the winner's canonical id and the winner's AF is at
\* least AF_THRESHOLD.
C3_FlagIffRadiusAndThreshold ==
    closest_file.exists =>
        \A i \in 1..Len(DataRows(closest_file)) :
           LET row == DataRows(closest_file)[i]
           IN IsFullRow(row) =>
                 /\ canonical_gid(row[2]) \in DOMAIN gtdb_radii
                 /\ row[6] = (row[3] >= gtdb_radii[canonical_gid(row[2])]
                              /\ row[4] >= AF_THRESHOLD)

C3_Witness ==
    /\ pc = "done"
    /\ min_af < AF_THRESHOLD
    /\ \E i \in 1..Len(DataRows(closest_file)) :
          LET row == DataRows(closest_file)[i]
          IN /\ IsFullRow(row)
             /\ row[4] >= min_af /\ row[4] < AF_THRESHOLD
             /\ row[3] >= gtdb_radii[canonical_gid(row[2])]
             /\ row[6] = FALSE

\* C4: in the summary report consecutive rows are in ascending order of query id and,
\* for one query, strictly ordered by AF descending, ANI descending, reference id
\* ascending; when the writer returns every hit of the table has exactly one row.
C4_SummaryOrder ==
    summary_file.exists =>
        LET rows == DataRows(summary_file)
        IN /\ \A i \in 1..(Len(rows) - 1) :
                \/ rows[i][1] < rows[i + 1][1]
                \/ /\ rows[i][1] = rows[i + 1][1]
                   /\ \/ rows[i][4] > rows[i + 1][4]
                      \/ rows[i][4] = rows[i + 1][4] /\ rows[i][3] > rows[i + 1][3]
                      \/ /\ rows[i][4] = rows[i + 1][4] /\ rows[i][3] = rows[i + 1][3]
                         /\ rows[i][2] < rows[i + 1][2]
           /\ error[1] # "ANISummaryFile" =>
                /\ Len(rows) = SumLen(fastani_results, DOMAIN fastani_results)
                /\ \A q \in DOMAIN fastani_results :
                      \A k \in 1..Len(fastani_results[q]) :
                         \E i \in 1..Len(rows) :
                            /\ rows[i][1] = q
                            /\ rows[i][2] = fastani_results[q][k].ref
                            /\ rows[i][3] = fastani_results[q][k].ani
                            /\ rows[i][4] = fastani_results[q][k].af

C4_Witness ==
    /\ summary_file.exists
    /\ error[1] # "ANISummaryFile"
    /\ \E q \in DOMAIN fastani_results :
          /\ Len(fastani_results[q]) = 2
          /\ fastani_results[q][1].af < min_af
          /\ fastani_results[q][1].af < fastani_results[q][2].af
          /\ fastani_results[q][1].ani > fastani_results[q][2].ani

PreFastANI == {"check_dependencies", "get_ref_genomes", "mash", "compare_all", "fastani"}

\* C5: a failure of the dependency check, the manifest load, Mash or FastANI ends the
\* run there, nothing runs afterwards, and neither report exists; a report exists
\* only once FastANI has returned its table.
C5_NoReportBeforeFastANI ==
    /\ error[1] \in {"check_dependencies", "_get_ref_genomes", "Mash", "FastANI"} =>
          /\ pc = "aborted"
          /\ ~ENABLED Next
          /\ ~summary_file.exists /\ ~closest_file.exists
    /\ (summary_file.exists \/ closest_file.exists) =>
          /\ pc \notin PreFastANI \cup {"taxonomy"}
          /\ error[1] \in {"none", "ANISummaryFile", "ANIClosestFile"}

C5_Witness ==
    /\ pc = "aborted"
    /\ error[1] = "FastANI"
    /\ ~no_mash
    /\ \E q \in DOMAIN d_compare : d_compare[q] # {}

\* C6 as stated: in pre-filter mode every query id of genomes is a key of the
\* candidate set handed to FastANI.
C6_EveryQueryIsKey ==
    (pc = "fastani" /\ ~no_mash) => DOMAIN genomes \subseteq DOMAIN d_compare

\* C6 amended: in pre-filter mode the keys of the candidate set handed to FastANI are
\* the keys of the Mash result, each with the key set of its hits (the empty set for
\* an empty hit mapping); a query that is no key of the Mash result is no key of the
\* candidate set.
C6_KeysAreMashKeys ==
    (pc = "fastani" /\ ~no_mash) =>
        /\ DOMAIN d_compare = DOMAIN mash_results
        /\ \A q \in DOMAIN d_compare : d_compare[q] = DOMAIN mash_results[q]

C6_Witness ==
    /\ pc = "fastani" /\ ~no_mash
    /\ ref_genomes # EmptyMap
    /\ \E q1, q2 \in DOMAIN genomes :
          /\ q1 \in DOMAIN mash_results /\ DOMAIN mash_results[q1] = {}
          /\ q1 \in DOMAIN d_compare /\ d_compare[q1] = {}
          /\ q2 \notin DOMAIN mash_results /\ q2 \notin DOMAIN d_compare

\* every (query, hit) of the table in the order the summary writer visits them
RECURSIVE SummaryVisits(_)
SummaryVisits(qry_gids) ==
    IF qry_gids = <<>> THEN <<>>
    ELSE LET hits == SummarySorted(fastani_results[Head(qry_gids)])
         IN [i \in 1..Len(hits) |-> <<Head(qry_gids), hits[i]>>]
            \o SummaryVisits(Tail(qry_gids))

Unresolved(visit) == canonical_gid(visit[2].ref) \notin DOMAIN taxonomy

\* C7: when some hit's canonical id is missing from the taxonomy, the summary writer
\* raises at the first such hit in its order: the report holds exactly the rows of
\* the hits before it, the run is over and the closest report does not exist.
C7_AbortAtFirstMiss ==
    summary_file.exists =>
        LET visits == SummaryVisits(SortedIds(DOMAIN fastani_results))
            rows == DataRows(summary_file)
        IN (\E n \in 1..Len(visits) : Unresolved(visits[n])) =>
              LET first == CHOOSE n \in 1..Len(visits) :
                              /\ Unresolved(visits[n])
                              /\ \A m \in 1..(n - 1) : ~Unresolved(visits[m])
              IN /\ error = <<"ANISummaryFile", "KeyError">>
                 /\ pc = "aborted"
                 /\ ~ENABLED NextReports
                 /\ ~closest_file.exists
                 /\ Len(rows) = first - 1
                 /\ \A i \in 1..Len(rows) :
                       /\ rows[i][1] = visits[i][1]
                       /\ rows[i][2] = visits[i][2].ref

C7_Witness ==
    /\ error = <<"ANISummaryFile", "KeyError">>
    /\ Len(DataRows(summary_file)) = 0
    /\ LET visits == SummaryVisits(SortedIds(DOMAIN fastani_results))
       IN /\ Len(visits) = 2
          /\ Unresolved(visits[1])
          /\ ~Unresolved(visits[2])

\* the winner of the closest writer for one query's hits, 0 when none qualifies
WinnerRef(ref_hits, minaf) ==
    LET closest == ClosestSorted(ThreshResults(ref_hits, minaf))
    IN IF Len(closest) > 0 THEN closest[1].ref ELSE NoResult

Perms(n) == {p \in [1..n -> 1..n] : \A i, j \in 1..n : i # j => p[i] # p[j]}

\* C8 as stated: the reference of a full row depends only on the set of hits of the
\* query, not on the order in which they were inserted into the table.
C8_InsertionOrderIrrelevant ==
    pc = "done" =>
        \A i \in 1..Len(DataRows(closest_file)) :
           LET row == DataRows(closest_file)[i]
               hits == fastani_results[row[1]]
           IN IsFullRow(row) =>
                 \A p \in Perms(Len(hits)) :
                    WinnerRef([k \in 1..Len(hits) |-> hits[p[k]]], min_af) = row[2]

\* C8 amended: among the qualifying hits of a query that tie on ANI and AF and are
\* jointly maximal, the reference of the row is the one inserted first into the
\* query's hit mapping.
C8_FirstInsertedWins ==
    closest_file.exists =>
        \A i \in 1..Len(DataRows(closest_file)) :
           LET row == DataRows(closest_file)[i]
               hits == fastani_results[row[1]]
           IN IsFullRow(row) =>
                 \E k \in 1..Len(hits) :
                    /\ hits[k].ref = row[2]
                    /\ \A n \in 1..Len(hits) :
                          (/\ Qualifies(hits[n])
                           /\ hits[n].ani = hits[k].ani
                           /\ hits[n].af = hits[k].af) => k <= n

C8_Witness ==
    /\ pc = "done"
    /\ \E i \in 1..Len(DataRows(closest_file)) :
          LET row == DataRows(closest_file)[i]
              hits == fastani_results[row[1]]
          IN /\ IsFullRow(row)
             /\ Len(hits) = 2
             /\ hits[1].ani = hits[2].ani /\ hits[1].af = hits[2].af
             /\ hits[1].ref > hits[2].ref
             /\ row[2] = hits[1].ref

\* the accession in force at line i: the stem of the latest line up to i whose
\* filename ends with the extension (0 when there is none)
InForce(i) ==
    LET S == {j \in 1..i : manifest[j][1].ext}
    IN IF S = {} THEN 0
       ELSE manifest[CHOOSE j \in S : \A k \in S : k <= j][1].stem

WellFormed(i) == Len(manifest[i]) = 2

\* C9: a line without two tokens ends the load with an error and no catalog; with an
\* earlier line that ends with the extension, a line that does not end with it raises
\* nothing: the catalog's keys are the ids of the lines that end with the extension,
\* and each id maps to the path of the last line read while that id was in force.
C9_StaleAccessionReused ==
    pc # "get_ref_genomes" =>
        /\ (\E i \in 1..Len(manifest) : ~WellFormed(i)) =>
              /\ pc = "aborted" /\ error[1] = "_get_ref_genomes"
              /\ ref_genomes = EmptyMap
        /\ (\E i \in 1..Len(manifest) :
               /\ ~WellFormed(i)
               /\ \A j \in 1..(i - 1) : WellFormed(j) /\ InForce(j) # 0) =>
              error = <<"_get_ref_genomes", "ValueError">>
        /\ (\A i \in 1..Len(manifest) : WellFormed(i) /\ InForce(i) # 0) =>
              /\ error = NoError
              /\ DOMAIN ref_genomes =
                    {manifest[i][1].stem : i \in {j \in 1..Len(manifest) : manifest[j][1].ext}}
              /\ \A a \in DOMAIN ref_genomes :
                    LET last == CHOOSE i \in 1..Len(manifest) :
                                   /\ InForce(i) = a
                                   /\ \A k \in 1..Len(manifest) : InForce(k) = a => k <= i
                    IN ref_genomes[a] = PathJoin(manifest[last][2], manifest[last][1])

C9_Witness ==
    /\ pc = "compare_all"
    /\ Len(manifest) = 3
    /\ manifest[1][1] = [stem |-> 11, ext |-> TRUE]
    /\ manifest[2][1] = [stem |-> 21, ext |-> TRUE]
    /\ manifest[3][1] = [stem |-> 12, ext |-> FALSE]
    /\ DOMAIN ref_genomes = {11, 21}
    /\ ref_genomes[21] = PathJoin(manifest[3][2], manifest[3][1])

\* C10: after the summary writer has returned without error, the closest writer never
\* fails on a taxonomy lookup; when it fails, the radius lookup failed.
C10_ClosestTaxonomyResolved ==
    error[1] = "ANIClosestFile" => error[2] = "RadiusError"

C10_Witness ==
    /\ error = <<"ANIClosestFile", "RadiusError">>
    /\ summary_file.exists
    /\ Len(DataRows(summary_file)) >= 1
    /\ \E c \in CanonIds : c \notin DOMAIN taxonomy

====
